---- MODULE Spec2Model ----
(***************************************************************************)
(* Model of pm.py: a power-management test campaign (suspend, hibernate,   *)
(* reboot, poweroff) repeated N times.  For reboot and poweroff every      *)
(* cycle is a separate process; the campaign state travels from one        *)
(* process to the next as the command line stored in an autostart desktop  *)
(* file.  The model follows main() and the methods it calls, one action    *)
(* per step at which the environment (user, clock, hardware, OS) can act.  *)
(***************************************************************************)
EXTENDS Integers, Sequences, FiniteSets, TLC

VARIABLES
    pc,               \* position of the running process inside main()
    argv,             \* command line of the current process (dest -> value)
    args,             \* argparse namespace after MyArgumentParser.parse
    uid,              \* os.getuid() of the current process
    now,              \* wall clock, in seconds (time()/datetime.now())
    artefact,         \* autostart desktop file: {} or {command line}
    lightdm,          \* /etc/lightdm/lightdm.conf
    backups,          \* lightdm.conf.bak, .bak.1, ... (contents, oldest first)
    sudoers,          \* number of blocks marked MARK in /etc/sudoers
    events,           \* CountdownDialog.events
    event,            \* CountdownDialog.event
    timeout_counter,  \* CountdownDialog.timeout_counter
    exc,              \* exception propagating to main's except clause
    exits,            \* exit statuses of the processes that have ended
    pending,          \* 'sleep 5; reboot|poweroff' shell still running
    hist,             \* history: what the campaign has done so far
    gate,             \* history: the last duration check evaluated
    writer,           \* history: namespace of the process that wrote artefact
    first,            \* history: namespace of the first process
    logins,           \* restarts/logins made by the user on their own
    lightdm_orig,     \* history: lightdm.conf before the campaign
    extra_args,       \* unknown arguments of the current process
    first_extra_args, \* history: unknown arguments of the first process
    command_str,      \* history: the last power command run
    alarm,            \* history: the WakeUpAlarm.set call of the last step
    waited,           \* history: sum of the timeouts of the events scheduled
    time_message      \* history: the time report logged by summary()

vars == <<pc, argv, args, uid, now, artefact, lightdm, backups, sudoers,
          events, event, timeout_counter, exc, exits, pending, hist,
          gate, writer, first, logins, lightdm_orig, extra_args,
          first_extra_args, command_str, alarm, waited, time_message>>

----------------------------------------------------------------------------
(* Bounds of the model *)

MaxRepetitions == 2
MaxLogins == 1
MaxWakeup == 4

(* Program constants *)

SLEEP_TIME == 5
DefaultRepetitions == 1
DefaultWakeup == 60
DefaultMinPmTime == 0
DefaultMaxPmTime == 300
DefaultPmDelay == 5
DefaultHardwareDelay == 30
ExitCancelled == 1
ExitFailed == 2
ExitSys == 1

PmOperations == {"suspend", "hibernate", "poweroff", "reboot"}
(* setup and teardown acting for every operation *)
EveryOperation == {"reboot", "poweroff", "suspend", "hibernate"}

RestartOperations == {"reboot", "poweroff"}

(* Input values the model draws from *)

WakeupValues == {3}
MinPmTimeValues == {0, 30}
MaxPmTimeValues == {10}
PmDelayValues == {1}
HardwareDelayValues == {2}
Uids == {0, 1000}
Durations == {10, 20, 58}
BootTimes == {10, 58}
LoginDelays == {20}
Verdicts == {"PASSED", "FAILED"}
ExtraArgsValues == {<<"--quirk-s3-bios">>}

----------------------------------------------------------------------------
(* Command lines *)

NoFlags == [f \in {} |-> 0]

OptSet(f, V) == {NoFlags} \cup {f :> v : v \in V}

Arg(v, f, default) == IF f \in DOMAIN v THEN v[f] ELSE default

FirstArgv ==
    { ("pm_operation" :> o) @@ ("repetitions" :> r) @@ w @@ mn @@ mx
        @@ ("pm_delay" :> pd) @@ ("hardware_delay" :> hd) @@ s :
        o \in PmOperations, r \in 1..MaxRepetitions,
        w \in OptSet("wakeup", WakeupValues),
        mn \in OptSet("min_pm_time", MinPmTimeValues),
        mx \in OptSet("max_pm_time", MaxPmTimeValues),
        pd \in PmDelayValues, hd \in HardwareDelayValues,
        s \in OptSet("silent", {"--silent"}) }
    \cup
    { ("pm_operation" :> o) @@ ("repetitions" :> r)
        @@ ("pm_delay" :> pd) @@ ("hardware_delay" :> hd)
        @@ ("silent" :> "--silent") @@ ("extra_args" :> x) :
        o \in PmOperations, r \in 1..MaxRepetitions,
        pd \in PmDelayValues, hd \in HardwareDelayValues,
        x \in ExtraArgsValues }

(* command lines for the parser alone: every --wakeup from 0 up, with and
   without --min-pm-time *)
ParseWakeupValues == 0..MaxWakeup

ParseArgv ==
    { ("pm_operation" :> o) @@ ("repetitions" :> r) @@ w @@ mn :
        o \in PmOperations, r \in 1..MaxRepetitions,
        w \in OptSet("wakeup", ParseWakeupValues),
        mn \in OptSet("min_pm_time", {0, 1} \cup MinPmTimeValues) }

NoArgs == [pm_operation |-> "none"]

(* the unknown arguments parse_known_args returns beside the namespace *)
ExtraArgs(v) == Arg(v, "extra_args", <<>>)

(* the namespace as parse_known_args returns it: argparse's defaults for
   the flags that are not on the command line *)
ParseKnownArgs(v) ==
    [pm_operation   |-> v["pm_operation"],
     repetitions    |-> Arg(v, "repetitions", DefaultRepetitions),
     wakeup         |-> Arg(v, "wakeup", DefaultWakeup),
     min_pm_time    |-> Arg(v, "min_pm_time", DefaultMinPmTime),
     max_pm_time    |-> Arg(v, "max_pm_time", DefaultMaxPmTime),
     pm_delay       |-> Arg(v, "pm_delay", DefaultPmDelay),
     hardware_delay |-> Arg(v, "hardware_delay", DefaultHardwareDelay),
     silent         |-> "silent" \in DOMAIN v,
     log_level_str  |-> Arg(v, "log_level_str", "info"),
     start          |-> Arg(v, "start", 0),
     pm_timestamp   |-> Arg(v, "pm_timestamp", 0),
     append         |-> "append" \in DOMAIN v,
     total          |-> Arg(v, "total", 0)]

(* MyArgumentParser.parse without the lines that force wakeup and
   min_pm_time for reboot *)
ParseReadsRebootFlags(v, t) ==
    LET a0 == ParseKnownArgs(v)
        a1 == IF a0.total = 0 THEN [a0 EXCEPT !.total = a0.repetitions] ELSE a0
        a2 == IF a1.start = 0 THEN [a1 EXCEPT !.start = t] ELSE a1
        a4 == IF a2.min_pm_time = 0
              THEN [a2 EXCEPT !.min_pm_time =
                        IF a2.wakeup - 2 < 0 THEN 0 ELSE a2.wakeup - 2]
              ELSE a2
    IN a4

(* MyArgumentParser.parse whose default min_pm_time is wakeup - 2 without
   the max(0, ...) *)
ParseDefaultNotClamped(v, t) ==
    LET a0 == ParseKnownArgs(v)
        a1 == IF a0.total = 0 THEN [a0 EXCEPT !.total = a0.repetitions] ELSE a0
        a2 == IF a1.start = 0 THEN [a1 EXCEPT !.start = t] ELSE a1
        a3 == IF a2.pm_operation = "reboot"
              THEN [a2 EXCEPT !.wakeup = 0, !.min_pm_time = 0] ELSE a2
        a4 == IF a3.min_pm_time = 0
              THEN [a3 EXCEPT !.min_pm_time = a3.wakeup - 2]
              ELSE a3
    IN a4

(* MyArgumentParser.parse *)
Parse(v, t) ==
    LET a0 == ParseKnownArgs(v)
        a1 == IF a0.total = 0 THEN [a0 EXCEPT !.total = a0.repetitions] ELSE a0
        a2 == IF a1.start = 0 THEN [a1 EXCEPT !.start = t] ELSE a1
        a3 == IF a2.pm_operation = "reboot"
              THEN [a2 EXCEPT !.wakeup = 0, !.min_pm_time = 0] ELSE a2
        a4 == IF a3.min_pm_time = 0
              THEN [a3 EXCEPT !.min_pm_time =
                        IF a3.wakeup - 2 < 0 THEN 0 ELSE a3.wakeup - 2]
              ELSE a3
    IN a4

(* AutoStartFile.write that stores the current repetitions *)
AutoStartFileContentsNoDecrement(a, t) ==
    ("repetitions" :> a.repetitions) @@ ("wakeup" :> a.wakeup)
    @@ ("hardware_delay" :> a.hardware_delay) @@ ("pm_delay" :> a.pm_delay)
    @@ ("min_pm_time" :> a.min_pm_time) @@ ("max_pm_time" :> a.max_pm_time)
    @@ ("append" :> "--append") @@ ("total" :> a.total)
    @@ ("start" :> a.start) @@ ("pm_timestamp" :> t)
    @@ (IF a.silent THEN ("silent" :> "--silent") ELSE NoFlags)
    @@ ("log_level_str" :> a.log_level_str)
    @@ ("pm_operation" :> a.pm_operation)

(* AutoStartFile.write whose template has no {silent} *)
AutoStartFileContentsNoSilent(a, t) ==
    ("repetitions" :> a.repetitions - 1) @@ ("wakeup" :> a.wakeup)
    @@ ("hardware_delay" :> a.hardware_delay) @@ ("pm_delay" :> a.pm_delay)
    @@ ("min_pm_time" :> a.min_pm_time) @@ ("max_pm_time" :> a.max_pm_time)
    @@ ("append" :> "--append") @@ ("total" :> a.total)
    @@ ("start" :> a.start) @@ ("pm_timestamp" :> t)
    @@ ("log_level_str" :> a.log_level_str)
    @@ ("pm_operation" :> a.pm_operation)

(* AutoStartFile.write: the Exec line of TEMPLATE, as a command line *)
AutoStartFileContents(a, t) ==
    ("repetitions" :> a.repetitions - 1) @@ ("wakeup" :> a.wakeup)
    @@ ("hardware_delay" :> a.hardware_delay) @@ ("pm_delay" :> a.pm_delay)
    @@ ("min_pm_time" :> a.min_pm_time) @@ ("max_pm_time" :> a.max_pm_time)
    @@ ("append" :> "--append") @@ ("total" :> a.total)
    @@ ("start" :> a.start) @@ ("pm_timestamp" :> t)
    @@ (IF a.silent THEN ("silent" :> "--silent") ELSE NoFlags)
    @@ ("log_level_str" :> a.log_level_str)
    @@ ("pm_operation" :> a.pm_operation)

----------------------------------------------------------------------------
(* Duration checks *)

NoGate == [kind |-> "none", ts |-> 0, elapsed |-> 0, min |-> 0, max |-> 0,
           result |-> "Skipped"]

(* check_last_cycle_duration: time since the previous process wrote
   --pm-timestamp *)
CheckLastCycleDuration(a, t) ==
    IF a.pm_timestamp /= 0
    THEN LET pm_time == t - a.pm_timestamp IN
         IF pm_time < a.min_pm_time THEN "TooShort"
         ELSE IF pm_time > a.max_pm_time THEN "TooLong"
         ELSE "Pass"
    ELSE "Skipped"

(* the command check with the upper bound excluded *)
CheckCommandTimeExclusiveMax(a, time) ==
    IF time < a.min_pm_time THEN "TooShort"
    ELSE IF time >= a.max_pm_time THEN "TooLong"
    ELSE "Pass"

(* run_pm_command: duration of the blocking pm-suspend/pm-hibernate *)
CheckCommandTime(a, time) ==
    IF time < a.min_pm_time THEN "TooShort"
    ELSE IF time > a.max_pm_time THEN "TooLong"
    ELSE "Pass"

----------------------------------------------------------------------------
(* History *)

Ev(e, r) == [ev |-> e, rep |-> r]

Events(e) == {i \in 1..Len(hist) : hist[i].ev = e}

Count(e) == Cardinality(Events(e))

----------------------------------------------------------------------------
(* Environment files *)

AutoLoginEnable ==
    /\ backups' = IF lightdm /= "absent" THEN Append(backups, lightdm)
                  ELSE backups
    /\ lightdm' = "autologin"

AutoLoginDisable ==
    IF backups /= <<>>
    THEN /\ lightdm' = backups[Len(backups)]
         /\ backups' = SubSeq(backups, 1, Len(backups) - 1)
    ELSE /\ lightdm' = "absent"
         /\ backups' = backups

(* SudoersConfigurator.enable that adds nothing to the file *)
SudoersEnableNothing == sudoers' = sudoers

SudoersEnable == sudoers' = sudoers + 1

(* SudoersConfigurator.disable whose sed expression matches nothing *)
SudoersDisableNothing == sudoers' = sudoers

SudoersDisable == sudoers' = 0

AutoStartFileWrite(a, t) == artefact' = {AutoStartFileContents(a, t)}

AutoStartFileRemove == artefact' = {}

(* teardown that leaves the autostart file in place *)
TeardownKeepsAutoStart ==
    IF args.pm_operation \in RestartOperations
    THEN artefact' = artefact /\ SudoersDisable /\ AutoLoginDisable
    ELSE UNCHANGED <<artefact, sudoers, lightdm, backups>>

(* PowerManagementOperation.teardown *)
Teardown ==
    IF args.pm_operation \in RestartOperations
    THEN AutoStartFileRemove /\ SudoersDisable /\ AutoLoginDisable
    ELSE UNCHANGED <<artefact, sudoers, lightdm, backups>>

TeardownEvents ==
    IF args.pm_operation \in RestartOperations
    THEN <<Ev("remove", args.repetitions), Ev("sudo_off", args.repetitions),
           Ev("autologin_off", args.repetitions)>>
    ELSE <<>>

----------------------------------------------------------------------------
(* The process *)

NoEvent == [name |-> "none", timeout |-> 0, callback |-> FALSE]

NoTimeMessage == [total |-> 0, wait_time |-> 0, average |-> 0]

NoCommand == [prefix |-> "none", operation |-> "none", extra_args |-> <<>>]

NoAlarm == [ops |-> <<>>, timeout |-> 0, utc |-> 0, local |-> 0,
            read1 |-> <<>>, stored |-> <<>>, accepted |-> FALSE,
            alarm_IRQ |-> "unread", alrm_date |-> "unread",
            result |-> "none"]

Init ==
    /\ pc = "main"
    /\ argv \in FirstArgv
    /\ args = NoArgs
    /\ uid \in Uids
    /\ now = 1
    /\ artefact = {}
    /\ lightdm \in {"absent", "original"}
    /\ lightdm_orig = lightdm
    /\ backups = <<>>
    /\ sudoers = 0
    /\ events = <<>>
    /\ event = NoEvent
    /\ timeout_counter = 0
    /\ exc = "none"
    /\ exits = <<>>
    /\ pending = FALSE
    /\ hist = <<>>
    /\ gate = NoGate
    /\ writer = NoArgs
    /\ first = NoArgs
    /\ logins = 0
    /\ extra_args = <<>>
    /\ first_extra_args = <<>>
    /\ command_str = NoCommand
    /\ alarm = NoAlarm
    /\ waited = 0
    /\ time_message = NoTimeMessage

(* an alarm test that holds of reboot too *)
NeedsAlarmAlways(a) == TRUE

(* main, line 30, and run_pm_command, line 165:
   'if args.pm_operation != "reboot"' *)
NeedsAlarm(a) == a.pm_operation /= "reboot"

(* a uid test that lets everybody through *)
NotRootNever(u) == FALSE

(* main, line 24: 'if os.getuid():' *)
NotRoot(u) == u /= 0

(* main, lines 21-27: parse the command line, refuse to run unless root *)
Main ==
    /\ pc = "main"
    /\ extra_args' = ExtraArgs(argv)
    /\ first_extra_args' = IF first = NoArgs THEN ExtraArgs(argv)
                           ELSE first_extra_args
    /\ alarm' = NoAlarm
    /\ command_str' = command_str
    /\ UNCHANGED <<waited, time_message>>
    /\ LET a == Parse(argv, now) IN
       /\ args' = a
       /\ first' = IF first = NoArgs THEN a ELSE first
       /\ IF NotRoot(uid)
          THEN /\ pc' = "exited"
               /\ exits' = Append(exits, ExitSys)
               /\ hist' = Append(hist, Ev("start", a.repetitions))
                            \o <<Ev("not_root", a.repetitions)>>
          ELSE /\ pc' = IF NeedsAlarm(a) THEN "wakeup_check"
                        ELSE "setup"
               /\ exits' = exits
               /\ hist' = Append(hist, Ev("start", a.repetitions))
                    \o (IF a.pm_operation = "reboot"
                        THEN <<Ev("logging", a.repetitions)>> ELSE <<>>)
    /\ UNCHANGED <<argv, uid, now, artefact, lightdm, backups, sudoers,
                   events, event, timeout_counter, exc, pending, gate,
                   writer, logins, lightdm_orig>>

(* WakeUpAlarm.check that does not look at the fwts verdict *)
CheckPassesIgnoresVerdict(alarm_file, rtc_file, verdict) ==
    alarm_file /\ rtc_file

(* WakeUpAlarm.check: both files exist and fwts reports PASSED *)
CheckPasses(alarm_file, rtc_file, verdict) ==
    alarm_file /\ rtc_file /\ verdict = "PASSED"

(* WakeUpAlarm.check, run by main before anything else is done; the history
   records what the hardware was like *)
WakeUpAlarmCheck ==
    /\ pc = "wakeup_check"
    /\ alarm' = NoAlarm
    /\ UNCHANGED <<extra_args, first_extra_args, command_str, waited,
                   time_message>>
    /\ \E alarm_file \in BOOLEAN, rtc_file \in BOOLEAN, verdict \in Verdicts :
         /\ hist' = Append(hist,
                IF alarm_file /\ rtc_file /\ verdict = "PASSED"
                THEN Ev("preflight_good", args.repetitions)
                ELSE Ev("preflight_bad", args.repetitions))
              \o (IF CheckPasses(alarm_file, rtc_file, verdict)
                  THEN <<Ev("logging", args.repetitions)>> ELSE <<>>)
         /\ IF CheckPasses(alarm_file, rtc_file, verdict)
            THEN /\ pc' = "setup"
                 /\ exits' = exits
            ELSE /\ pc' = "exited"
                 /\ exits' = Append(exits, ExitSys)
    /\ UNCHANGED <<argv, args, uid, now, artefact, lightdm, backups, sudoers,
                   events, event, timeout_counter, exc, pending, gate,
                   writer, first, logins, lightdm_orig>>

(* a first-cycle test that every process passes *)
FirstCycleAlways(a) == TRUE

(* setup, line 76: 'if self.args.total == self.args.repetitions' *)
FirstCycle(a) == a.total = a.repetitions

(* PowerManagementOperation.setup *)
Setup ==
    /\ pc = "setup"
    /\ alarm' = NoAlarm
    /\ UNCHANGED <<extra_args, first_extra_args, command_str, waited,
                   time_message>>
    /\ IF args.pm_operation \in RestartOperations
       THEN /\ IF FirstCycle(args)
               THEN AutoLoginEnable /\ SudoersEnable
               ELSE UNCHANGED <<lightdm, backups, sudoers>>
            /\ AutoStartFileWrite(args, now)
            /\ writer' = args
            /\ hist' = hist
                 \o (IF FirstCycle(args)
                     THEN <<Ev("autologin_on", args.repetitions),
                            Ev("sudo_on", args.repetitions)>>
                     ELSE <<>>)
                 \o <<Ev("write", args.repetitions - 1)>>
       ELSE UNCHANGED <<lightdm, backups, sudoers, artefact, writer, hist>>
    /\ pc' = "run"
    /\ UNCHANGED <<argv, args, uid, now, events, event, timeout_counter, exc,
                   exits, pending, gate, first, logins, lightdm_orig>>

(* CountdownDialog.__init__ giving every countdown both events *)
DialogEventsAlwaysBoth(pm_delay, hardware_delay, iterations, count) ==
    <<[name |-> "operation", timeout |-> pm_delay, callback |-> FALSE],
      [name |-> "hardware_info", timeout |-> hardware_delay,
       callback |-> TRUE]>>

(* CountdownDialog.__init__ listing the hardware information event before
   the operation event *)
DialogEventsOperationLast(pm_delay, hardware_delay, iterations, count) ==
    LET operation_event == [name |-> "operation", timeout |-> pm_delay,
                            callback |-> FALSE]
        hardware_info_event == [name |-> "hardware_info",
                                timeout |-> hardware_delay,
                                callback |-> TRUE]
    IN IF iterations = 0 THEN <<operation_event>>
       ELSE IF iterations < count
            THEN <<hardware_info_event, operation_event>>
            ELSE <<hardware_info_event>>

(* CountdownDialog.__init__: the events of this cycle's countdown *)
DialogEvents(pm_delay, hardware_delay, iterations, iterations_count) ==
    LET operation_event == [name |-> "operation", timeout |-> pm_delay,
                            callback |-> FALSE]
        hardware_info_event == [name |-> "hardware_info",
                                timeout |-> hardware_delay,
                                callback |-> TRUE]
    IN IF iterations = 0 THEN <<operation_event>>
       ELSE IF iterations < iterations_count
            THEN <<operation_event, hardware_info_event>>
            ELSE <<hardware_info_event>>

(* run_one_test_cycle up to the point where the countdown dialog is shown:
   check_last_cycle_duration, then CountdownDialog(...) and the first
   schedule_next_event of CountdownDialog.run *)
RunOneTestCycle ==
    /\ pc = "run"
    /\ alarm' = NoAlarm
    /\ UNCHANGED <<extra_args, first_extra_args, command_str, time_message>>
    /\ LET r == CheckLastCycleDuration(args, now)
           iterations == args.total - args.repetitions
           evs == DialogEvents(args.pm_delay, args.hardware_delay,
                               iterations, args.total)
       IN /\ gate' = [kind |-> "timestamp", ts |-> args.pm_timestamp,
                      elapsed |-> now - args.pm_timestamp,
                      min |-> args.min_pm_time, max |-> args.max_pm_time,
                      result |-> r]
          /\ IF r \in {"TooShort", "TooLong"}
             THEN /\ exc' = "TestFailed"
                  /\ pc' = "except"
                  /\ hist' = hist \o <<Ev("cycle", args.repetitions),
                                       Ev("gate_failed", args.repetitions)>>
                  /\ UNCHANGED <<events, event, timeout_counter, waited>>
             ELSE /\ exc' = exc
                  /\ pc' = "dialog"
                  /\ hist' = hist \o <<Ev("cycle", args.repetitions)>>
                        \o (IF iterations = 0
                            THEN <<Ev("hardware_info", args.repetitions)>>
                            ELSE <<>>)
                        \o <<Ev("countdown", args.repetitions)>>
                  /\ event' = evs[Len(evs)]
                  /\ events' = SubSeq(evs, 1, Len(evs) - 1)
                  /\ timeout_counter' = evs[Len(evs)].timeout
                  /\ waited' = waited + evs[Len(evs)].timeout
    /\ UNCHANGED <<argv, args, uid, now, artefact, lightdm, backups, sudoers,
                   exits, pending, writer, first, logins, lightdm_orig>>

(* CountdownDialog.on_timeout_cb, fired by the one-second timer *)
OnTimeoutCb ==
    /\ pc = "dialog"
    /\ alarm' = NoAlarm
    /\ UNCHANGED <<extra_args, first_extra_args, command_str, time_message>>
    /\ now' = now + 1
    /\ IF timeout_counter > 0
       THEN /\ timeout_counter' = timeout_counter - 1
            /\ UNCHANGED <<events, event, pc, hist, waited>>
       ELSE /\ hist' = hist
                 \o (IF event.callback
                     THEN <<Ev("hardware_info", args.repetitions)>>
                     ELSE <<>>)
                 \o (IF events = <<>>
                     THEN <<Ev("accept", args.repetitions)>> ELSE <<>>)
            /\ IF events /= <<>>
               THEN /\ event' = events[Len(events)]
                    /\ events' = SubSeq(events, 1, Len(events) - 1)
                    /\ timeout_counter' = events[Len(events)].timeout
                    /\ waited' = waited + events[Len(events)].timeout
                    /\ pc' = pc
               ELSE /\ UNCHANGED <<events, event, timeout_counter, waited>>
                    /\ pc' = IF args.repetitions > 0
                             THEN IF NeedsAlarm(args)
                                  THEN "wakeup_set" ELSE "pm_command"
                             ELSE "summary"
    /\ UNCHANGED <<argv, args, uid, artefact, lightdm, backups, sudoers, exc,
                   exits, pending, gate, writer, first, logins, lightdm_orig>>

(* a Cancel that is still taken after the countdown dialog has closed *)
CancelAfterCountdown ==
    /\ pc \in {"dialog", "wakeup_set", "pm_command"}
    /\ alarm' = NoAlarm
    /\ exc' = "TestCancelled"
    /\ pc' = "except"
    /\ hist' = Append(hist, Ev("cancel", args.repetitions))
    /\ UNCHANGED <<argv, args, uid, now, artefact, lightdm, backups, sudoers,
                   events, event, timeout_counter, exits, pending, gate,
                   writer, first, logins, lightdm_orig, extra_args,
                   first_extra_args, command_str, waited, time_message>>

(* CountdownDialog.run: the user answers the dialog with Cancel *)
Cancel ==
    /\ pc = "dialog"
    /\ alarm' = NoAlarm
    /\ UNCHANGED <<extra_args, first_extra_args, command_str, waited,
                   time_message>>
    /\ exc' = "TestCancelled"
    /\ pc' = "except"
    /\ hist' = Append(hist, Ev("cancel", args.repetitions))
    /\ UNCHANGED <<argv, args, uid, now, artefact, lightdm, backups, sudoers,
                   events, event, timeout_counter, exits, pending, gate,
                   writer, first, logins, lightdm_orig>>

----------------------------------------------------------------------------
(* Wake alarm *)

TzOffsets == {0, 5}
Skews == -2..2

Abs(x) == IF x < 0 THEN -x ELSE x

(* what the alarm register can read back after a write at time t: <<n>> for
   the digits of n, <<>> for anything re.match('\d+') rejects *)
ReadBacks(t, tz, timeout) ==
    {<<>>} \cup {<<t + timeout + d>> : d \in Skews}
           \cup {<<t + tz + timeout + d>> : d \in Skews}

(* WakeUpAlarm.set comparing the stored value with the UTC candidate only *)
AlarmStoredOkUtcOnly(t, tz, timeout, read1, read2) ==
    LET wakeup_time_utc == t + timeout
        wakeup_time_stored_str == IF read1 = <<>> THEN read2 ELSE read1
    IN /\ wakeup_time_stored_str /= <<>>
       /\ ~ (Abs(wakeup_time_utc - wakeup_time_stored_str[1]) > 1)

(* WakeUpAlarm.set, lines 331-363: which stored string is accepted.
   read1 is the register after 'echo <utc>', read2 after 'echo +<timeout>' *)
AlarmStoredOk(t, tz, timeout, read1, read2) ==
    LET wakeup_time_utc == t + timeout
        wakeup_time_local == t + tz + timeout
        wakeup_time_stored_str == IF read1 = <<>> THEN read2 ELSE read1
    IN /\ wakeup_time_stored_str /= <<>>
       /\ LET wakeup_time_stored == wakeup_time_stored_str[1] IN
          ~ (/\ Abs(wakeup_time_utc - wakeup_time_stored) > 1
             /\ Abs(wakeup_time_local - wakeup_time_stored) > 1)

(* the /proc/driver/rtc cross-check that looks at alrm_date only *)
RtcOkIgnoresIrq(alarm_IRQ, alrm_date) == alrm_date /= "*"

(* WakeUpAlarm.set, lines 365-384: the /proc/driver/rtc cross-check *)
RtcOk(alarm_IRQ, alrm_date) == alarm_IRQ = "yes" /\ alrm_date /= "*"

(* WakeUpAlarm.set that trusts the second write without reading it back *)
AlarmOpsNoSecondRead(read1, read2, stored_ok) ==
    <<"write_0", "write_utc", "read">>
    \o (IF read1 = <<>> THEN <<"write_plus_timeout">> ELSE <<>>)
    \o (IF stored_ok THEN <<"rtc_read">> ELSE <<>>)

(* WakeUpAlarm.set: what it does to the alarm register and /proc/driver/rtc,
   in order, given what the register read back *)
AlarmOps(read1, read2, stored_ok) ==
    <<"write_0", "write_utc", "read">>
    \o (IF read1 = <<>> THEN <<"write_plus_timeout", "read">> ELSE <<>>)
    \o (IF stored_ok THEN <<"rtc_read">> ELSE <<>>)

(* WakeUpAlarm.set(seconds=args.wakeup), called by run_pm_command.  The
   register is read a second time only when the first read is no integer,
   /proc/driver/rtc only when the stored value was accepted, and its
   alrm_date only when alarm_IRQ is 'yes' *)
WakeUpAlarmSet ==
    /\ pc = "wakeup_set"
    /\ \E tz \in TzOffsets :
       \E read1 \in ReadBacks(now, tz, args.wakeup) :
       \E read2 \in IF read1 = <<>> THEN ReadBacks(now, tz, args.wakeup)
                     ELSE {read1} :
       \E alarm_IRQ \in IF AlarmStoredOk(now, tz, args.wakeup, read1, read2)
                         THEN {"yes", "no"} ELSE {"unread"} :
       \E alrm_date \in IF alarm_IRQ = "yes" THEN {"*", "set"}
                         ELSE {"unread"} :
         LET stored_ok == AlarmStoredOk(now, tz, args.wakeup, read1, read2)
             set == stored_ok /\ RtcOk(alarm_IRQ, alrm_date)
         IN /\ alarm' = [ops |-> AlarmOps(read1, read2, stored_ok),
                         timeout |-> args.wakeup,
                         utc |-> now + args.wakeup,
                         local |-> now + tz + args.wakeup,
                         read1 |-> read1,
                         stored |-> IF read1 = <<>> THEN read2 ELSE read1,
                         accepted |-> stored_ok,
                         alarm_IRQ |-> alarm_IRQ,
                         alrm_date |-> alrm_date,
                         result |-> IF set THEN "set" ELSE "failed"]
            /\ IF set
               THEN /\ pc' = "pm_command"
                    /\ hist' = Append(hist, Ev("alarm_set", args.repetitions))
                    /\ exits' = exits
               ELSE /\ pc' = "exited"
                    /\ hist' = Append(hist,
                                      Ev("alarm_failed", args.repetitions))
                    /\ exits' = Append(exits, ExitSys)
    /\ UNCHANGED <<argv, args, uid, now, artefact, lightdm, backups, sudoers,
                   events, event, timeout_counter, exc, pending, gate,
                   writer, first, logins, lightdm_orig, extra_args,
                   first_extra_args, command_str, waited, time_message>>

----------------------------------------------------------------------------
(* the while loop stopping one cycle early *)
LoopContinuesWhilePositive(repetitions) == repetitions > 0

(* run_multiple_test_cycles: the condition of the while loop *)
LoopContinues(repetitions) == repetitions >= 0

(* summary, lines 205-220: the time report, in whole seconds *)
TimeMessage(a, end) ==
    LET sleep_time == IF a.pm_operation = "reboot" THEN SLEEP_TIME
                      ELSE a.wakeup
        wait_time == (a.pm_delay + a.hardware_delay) * a.total
    IN [total |-> end - a.start,
        wait_time |-> wait_time,
        average |-> ((end - a.start - wait_time) \div a.total) - sleep_time]

(* run_pm_command, lines 154-163: the command line handed to the shell *)
CommandStr(a, extra) ==
    [prefix |-> IF a.pm_operation \in {"suspend", "hibernate"}
                THEN "pm-" ELSE "sleep SLEEP_TIME;",
     operation |-> a.pm_operation,
     extra_args |-> IF extra /= <<>> THEN extra ELSE <<>>]

(* run_pm_command after the alarm: pm-suspend/pm-hibernate block until the
   machine is back and their duration is checked, then the loop of
   run_multiple_test_cycles decrements repetitions; 'sleep 5; reboot' and
   'sleep 5; poweroff' are started in the background, run() returns and
   main returns 0 *)
PmCommand ==
    /\ pc = "pm_command"
    /\ command_str' = CommandStr(args, extra_args)
    /\ alarm' = NoAlarm
    /\ UNCHANGED <<extra_args, first_extra_args, waited, time_message>>
    /\ IF args.pm_operation \in {"suspend", "hibernate"}
       THEN \E time \in Durations :
              LET r == CheckCommandTime(args, time) IN
              /\ now' = now + time
              /\ gate' = [kind |-> "command", ts |-> 0, elapsed |-> time,
                          min |-> args.min_pm_time, max |-> args.max_pm_time,
                          result |-> r]
              /\ IF r = "Pass"
                 THEN /\ args' = [args EXCEPT !.repetitions = @ - 1]
                      /\ pc' = IF LoopContinues(args.repetitions - 1)
                               THEN "run" ELSE "exited"
                      /\ exits' = IF LoopContinues(args.repetitions - 1)
                                  THEN exits ELSE Append(exits, 0)
                      /\ exc' = exc
                      /\ hist' = Append(hist, Ev("command", args.repetitions))
                 ELSE /\ args' = args
                      /\ pc' = "except"
                      /\ exits' = exits
                      /\ exc' = "TestFailed"
                      /\ hist' = hist \o <<Ev("command", args.repetitions),
                                           Ev("gate_failed", args.repetitions)>>
              /\ pending' = pending
       ELSE /\ pending' = TRUE
            /\ pc' = "exited"
            /\ exits' = Append(exits, 0)
            /\ hist' = Append(hist, Ev("command", args.repetitions))
            /\ UNCHANGED <<now, gate, args, exc>>
    /\ UNCHANGED <<argv, uid, artefact, lightdm, backups, sudoers, events,
                   event, timeout_counter, writer, first, logins, lightdm_orig>>

(* PowerManagementOperation.summary after its countdown: teardown, the
   time report and the completion message; then run() returns (for
   suspend/hibernate the loop decrements repetitions once more and ends)
   and main returns 0 *)
Summary ==
    /\ pc = "summary"
    /\ alarm' = NoAlarm
    /\ UNCHANGED <<extra_args, first_extra_args, command_str, waited>>
    /\ time_message' = TimeMessage(args, now)
    /\ Teardown
    /\ hist' = hist \o TeardownEvents \o <<Ev("summary", args.repetitions)>>
    /\ IF args.pm_operation \in RestartOperations
       THEN /\ args' = args
            /\ pc' = "exited"
            /\ exits' = Append(exits, 0)
       ELSE /\ args' = [args EXCEPT !.repetitions = @ - 1]
            /\ pc' = IF LoopContinues(args.repetitions - 1)
                     THEN "run" ELSE "exited"
            /\ exits' = IF LoopContinues(args.repetitions - 1)
                        THEN exits ELSE Append(exits, 0)
    /\ UNCHANGED <<argv, uid, now, events, event, timeout_counter, exc,
                   pending, gate, writer, first, logins, lightdm_orig>>

(* RETURN_CODE 0 for both exceptions *)
ReturnCodeSuccess(exception) == 0

(* RETURN_CODE 2 for both exceptions *)
ReturnCodeAlwaysFailed(exception) == ExitFailed

(* RETURN_CODE 1 for both exceptions *)
ReturnCodeAlwaysCancelled(exception) == ExitCancelled

(* main, lines 47-58: TestCancelled or TestFailed reached main *)
ReturnCode(exception) ==
    IF exception = "TestCancelled" THEN ExitCancelled ELSE ExitFailed

MainExcept ==
    /\ pc = "except"
    /\ alarm' = NoAlarm
    /\ UNCHANGED <<extra_args, first_extra_args, command_str, waited,
                   time_message>>
    /\ Teardown
    /\ hist' = hist \o TeardownEvents
    /\ pc' = "exited"
    /\ exits' = Append(exits, ReturnCode(exc))
    /\ exc' = "none"
    /\ UNCHANGED <<argv, args, uid, now, events, event, timeout_counter,
                   pending, gate, writer, first, logins, lightdm_orig>>

----------------------------------------------------------------------------
(* The machine *)

(* a session starts: the autostart entry, when there is one, runs its Exec
   line with sudo *)
Login ==
    IF artefact /= {}
    THEN /\ argv' = CHOOSE v \in artefact : TRUE
         /\ uid' = 0
         /\ pc' = "main"
    ELSE UNCHANGED <<argv, uid, pc>>

(* the background 'sleep 5; reboot|poweroff' takes the machine down; it
   comes back (by itself, or woken by the alarm) and the user is logged in *)
OSTransition ==
    /\ pc = "exited"
    /\ alarm' = NoAlarm
    /\ UNCHANGED <<extra_args, first_extra_args, command_str, waited,
                   time_message>>
    /\ pending
    /\ pending' = FALSE
    /\ \E d \in BootTimes : now' = now + SLEEP_TIME + d
    /\ Login
    /\ hist' = Append(hist, Ev("restart", args.repetitions))
    /\ UNCHANGED <<args, artefact, lightdm, backups, sudoers, events, event,
                   timeout_counter, exc, exits, gate, writer, first, logins,
                   lightdm_orig>>

(* the user restarts the machine or logs in again after the process ended *)
UserLogin ==
    /\ pc = "exited"
    /\ alarm' = NoAlarm
    /\ UNCHANGED <<extra_args, first_extra_args, command_str, waited,
                   time_message>>
    /\ ~ pending
    /\ logins < MaxLogins
    /\ logins' = logins + 1
    /\ \E d \in LoginDelays : now' = now + d
    /\ Login
    /\ hist' = Append(hist, Ev("login", args.repetitions))
    /\ UNCHANGED <<args, artefact, lightdm, backups, sudoers, events, event,
                   timeout_counter, exc, exits, pending, gate, writer, first,
                   lightdm_orig>>

Next ==
    \/ Main
    \/ WakeUpAlarmCheck
    \/ Setup
    \/ RunOneTestCycle
    \/ OnTimeoutCb
    \/ Cancel
    \/ WakeUpAlarmSet
    \/ PmCommand
    \/ Summary
    \/ MainExcept
    \/ OSTransition
    \/ UserLogin

Spec == Init /\ [][Next]_vars

(* the parser alone: main is started as root on any command line of
   ParseArgv and goes as far as the parsed namespace *)
InitParse ==
    /\ pc = "main"
    /\ argv \in ParseArgv
    /\ args = NoArgs
    /\ uid = 0
    /\ now = 1
    /\ artefact = {}
    /\ lightdm \in {"absent", "original"}
    /\ lightdm_orig = lightdm
    /\ backups = <<>>
    /\ sudoers = 0
    /\ events = <<>>
    /\ event = NoEvent
    /\ timeout_counter = 0
    /\ exc = "none"
    /\ exits = <<>>
    /\ pending = FALSE
    /\ hist = <<>>
    /\ gate = NoGate
    /\ writer = NoArgs
    /\ first = NoArgs
    /\ logins = 0
    /\ extra_args = <<>>
    /\ first_extra_args = <<>>
    /\ command_str = NoCommand
    /\ alarm = NoAlarm
    /\ waited = 0
    /\ time_message = NoTimeMessage

SpecParse == InitParse /\ [][Main]_vars

----------------------------------------------------------------------------
(* Properties *)

Last(s) == s[Len(s)]

EvSeq(e) == SelectSeq(hist, LAMBDA h : h.ev = e)

Reps(s) == [i \in 1..Len(s) |-> s[i].rep]

Descending(n, k) == [i \in 1..k |-> n + 1 - i]

Troubles == {"cancel", "gate_failed", "preflight_bad", "alarm_failed",
             "not_root"}

Clean == \A i \in 1..Len(hist) : hist[i].ev \notin Troubles

(* index of the "start" of the latest process, and what it has done *)
ProcStart ==
    IF Events("start") = {} THEN 0
    ELSE CHOOSE i \in Events("start") : \A j \in Events("start") : j <= i

ProcEvs == {hist[k].ev : k \in (ProcStart + 1)..Len(hist)}

(* events of the process that logged hist[i], after hist[i] *)
LaterInProcess(i) ==
    {k \in (i + 1)..Len(hist) :
        \A m \in (i + 1)..k : hist[m].ev /= "start"}

EnvReverted ==
    /\ artefact = {}
    /\ sudoers = 0
    /\ lightdm = lightdm_orig
    /\ backups = <<>>

CampaignOver == pc = "exited" /\ ~ pending

(* C1: in a campaign started with repetitions = N >= 1 and free of
   cancellation, gate failure and hardware error, the cycles run at
   repetitions N, N-1, ..., 0, the power commands are issued at N, N-1,
   ..., 1 in that order, the summary runs at most once and only at
   repetitions 0 after all N commands, and when the campaign is over
   exactly N commands were issued and the summary ran exactly once *)
C1_CountsDownToSummary ==
    (first /= NoArgs /\ Clean) =>
        LET N == first.repetitions
            cmds == Reps(EvSeq("command"))
            cycles == Reps(EvSeq("cycle"))
        IN /\ Len(cmds) <= N
           /\ cmds = Descending(N, Len(cmds))
           /\ Len(cycles) <= N + 1
           /\ cycles = Descending(N, Len(cycles))
           /\ Count("summary") <= 1
           /\ \A i \in Events("summary") :
                hist[i].rep = 0 /\ Len(cmds) = N
           /\ CampaignOver => (Len(cmds) = N /\ Count("summary") = 1)

C1_Witness ==
    /\ Clean
    /\ CampaignOver
    /\ first /= NoArgs
    /\ first.repetitions = 2
    /\ first.pm_operation = "poweroff"
    /\ Count("command") = 2
    /\ Count("summary") = 1

(* C2: for reboot and poweroff, every power command is preceded, in the
   same process, by the writing of the autostart file with repetitions - 1,
   nothing is written after the command, and while the background command
   is running the file is there and holds repetitions - 1 *)
C2_ArtefactBeforeCommand ==
    (first /= NoArgs /\ first.pm_operation \in RestartOperations) =>
        /\ \A i \in Events("command") :
             /\ \E j \in Events("write") :
                  /\ j < i
                  /\ i \in LaterInProcess(j)
                  /\ hist[j].rep = hist[i].rep - 1
             /\ \A k \in LaterInProcess(i) : hist[k].ev /= "write"
        /\ pending =>
             /\ artefact /= {}
             /\ \A v \in artefact : v["repetitions"] = args.repetitions - 1

C2_Witness ==
    /\ pending
    /\ args.pm_operation = "reboot"
    /\ Count("command") = 2
    /\ \A v \in artefact : v["repetitions"] = 0

(* C3 as stated: too short iff elapsed < min, too long iff elapsed > max,
   passing otherwise, for both checks; the timestamp check is skipped iff
   the timestamp is 0 *)
GateChecked ==
    gate.kind = "command" \/ (gate.kind = "timestamp" /\ gate.ts /= 0)

C3_GateIffBounds ==
    /\ GateChecked =>
         /\ gate.result = "TooShort" <=> gate.elapsed < gate.min
         /\ gate.result = "TooLong" <=> gate.elapsed > gate.max
         /\ gate.result = "Pass" <=>
              (gate.elapsed >= gate.min /\ gate.elapsed <= gate.max)
    /\ gate.kind = "timestamp" => (gate.result = "Skipped" <=> gate.ts = 0)

(* C3 amended: the lower bound is tested first, so the check fails as too
   short iff elapsed < min, as too long iff elapsed > max and elapsed is not
   below min, and passes iff min <= elapsed <= max; this holds of the
   timestamp check and of the command check alike, and the timestamp check
   is skipped iff the timestamp is 0 *)
C3_GateLowerBoundFirst ==
    /\ GateChecked =>
         /\ gate.result = "TooShort" <=> gate.elapsed < gate.min
         /\ gate.result = "TooLong" <=>
              (gate.elapsed > gate.max /\ gate.elapsed >= gate.min)
         /\ gate.result = "Pass" <=>
              (gate.elapsed >= gate.min /\ gate.elapsed <= gate.max)
    /\ gate.kind = "timestamp" => (gate.result = "Skipped" <=> gate.ts = 0)

C3_Witness ==
    /\ gate.kind = "command"
    /\ gate.elapsed > gate.max
    /\ gate.elapsed < gate.min
    /\ gate.result = "TooShort"

(* C4: after a duration check has failed nothing more happens in the
   campaign (no cycle, countdown, alarm, command, write or new process),
   and once the process has ended its exit code is 2, no command is
   running, the autostart file is absent and the environment is as before
   the campaign *)
C4_GateFailureAborts ==
    \A i \in Events("gate_failed") :
        /\ \A k \in (i + 1)..Len(hist) :
             hist[k].ev \in {"remove", "sudo_off", "autologin_off", "login"}
        /\ pc \in {"except", "exited"}
        /\ pc = "exited" =>
             /\ Last(exits) = 2
             /\ ~ pending
             /\ EnvReverted

C4_Witness ==
    /\ pc = "exited"
    /\ Count("gate_failed") = 1
    /\ args.pm_operation = "poweroff"
    /\ Count("sudo_on") = 1
    /\ Count("command") = 1
    /\ Last(hist).ev = "login"

(* C5: after the countdown has been cancelled nothing more happens in the
   campaign, no duration failure is reported, and once the process has
   ended its exit code is 1, the autostart file is absent and the
   environment is as before the campaign *)
C5_CancelAborts ==
    \A i \in Events("cancel") :
        /\ \A k \in (i + 1)..Len(hist) :
             hist[k].ev \in {"remove", "sudo_off", "autologin_off", "login"}
        /\ Count("gate_failed") = 0
        /\ pc \in {"except", "exited"}
        /\ pc = "exited" =>
             /\ Last(exits) = 1
             /\ ~ pending
             /\ EnvReverted

C5_Witness ==
    /\ pc = "exited"
    /\ first.repetitions = 2
    /\ args.pm_operation = "reboot"
    /\ \E i \in Events("cancel") : hist[i].rep = 1
    /\ Count("command") = 1
    /\ Count("sudo_on") = 1
    /\ lightdm_orig = "original"

(* C6: once the summary of a reboot or poweroff campaign has run, the
   process has returned 0, the autostart file is absent, the environment is
   as before the campaign and no further process is started *)
C6_CompletionCleansUp ==
    (first /= NoArgs /\ first.pm_operation \in RestartOperations) =>
        \A i \in Events("summary") :
            /\ pc = "exited"
            /\ Last(exits) = 0
            /\ ~ pending
            /\ EnvReverted
            /\ \A k \in (i + 1)..Len(hist) : hist[k].ev = "login"

C6_Witness ==
    /\ Count("summary") = 1
    /\ args.pm_operation = "reboot"
    /\ lightdm_orig = "original"
    /\ Clean
    /\ Last(hist).ev = "login"

(* C7: the repetitions of the running process and the repetitions stored in
   the autostart file are never below 0 *)
C7_RepetitionsNeverNegative ==
    /\ args /= NoArgs => args.repetitions >= 0
    /\ \A v \in artefact : v["repetitions"] >= 0
    /\ \A i \in Events("write") : hist[i].rep >= 0

(* C8: parsing the command line of the autostart file gives the operation,
   total, start, wakeup, minimum, maximum, delays and silent of the process
   that wrote it and one repetition less; every process of the campaign has
   these fields as the first one had them *)
CampaignFields(a) ==
    <<a.pm_operation, a.total, a.start, a.wakeup, a.min_pm_time,
      a.max_pm_time, a.pm_delay, a.hardware_delay, a.silent>>

C8_RoundTrip ==
    /\ \A v \in artefact :
         LET p == Parse(v, now) IN
         /\ CampaignFields(p) = CampaignFields(writer)
         /\ p.repetitions = writer.repetitions - 1
    /\ args /= NoArgs => CampaignFields(args) = CampaignFields(first)

C8_Witness ==
    /\ pc = "setup"
    /\ args.append
    /\ args.silent
    /\ args.pm_operation = "poweroff"
    /\ args.repetitions = 1
    /\ args.total = 2
    /\ args.min_pm_time = 1
    /\ args.start = 1
    /\ args = [writer EXCEPT !.repetitions = 1, !.append = TRUE,
                             !.pm_timestamp = args.pm_timestamp]

(* C9: a process whose wake-alarm check meets a missing file or a verdict
   other than PASSED has done nothing before and does nothing after: it
   exits with code 1; when it is the first process of the campaign, the
   autostart file is never written and the environment never touched *)
C9_PreflightFailureAborts ==
    \A i \in Events("preflight_bad") :
        /\ hist[i - 1].ev = "start"
        /\ LaterInProcess(i) \subseteq Events("login")
        /\ i = Len(hist) => (pc = "exited" /\ Last(exits) = 1)
        /\ Count("start") = 1 =>
             /\ Count("write") = 0
             /\ artefact = {}
             /\ sudoers = 0
             /\ lightdm = lightdm_orig
             /\ pc = "exited"

C9_Witness ==
    /\ Count("start") = 1
    /\ Count("preflight_bad") = 1
    /\ args.pm_operation = "poweroff"
    /\ Last(hist).ev = "login"
    /\ artefact = {}

(* C10 as stated: a hardware failure ends the process with exit code 2,
   exit code 1 comes only from a cancellation and exit code 0 only from a
   process that met no failure *)
HardwareFailures == {"preflight_bad", "alarm_failed"}

C10_HardwareFailureExitsTwo ==
    (pc = "exited" /\ exits /= <<>>) =>
        /\ ProcEvs \cap HardwareFailures /= {} => Last(exits) = 2
        /\ Last(exits) = 1 => "cancel" \in ProcEvs
        /\ Last(exits) = 0 => ProcEvs \cap Troubles = {}

(* C10 amended: a hardware failure ends the process with exit code 1, the
   code of a cancellation and of a missing privilege; exit code 1 comes
   only from these, exit code 2 from a duration failure and only from it,
   and exit code 0 only from a process that met no failure and either ran
   the summary or issued its power command *)
C10_ExitCodes ==
    (pc = "exited" /\ exits /= <<>>) =>
        /\ ProcEvs \cap HardwareFailures /= {} => Last(exits) = 1
        /\ "cancel" \in ProcEvs => Last(exits) = 1
        /\ "not_root" \in ProcEvs => Last(exits) = 1
        /\ "gate_failed" \in ProcEvs <=> Last(exits) = 2
        /\ Last(exits) = 1 =>
             ProcEvs \cap (HardwareFailures \cup {"cancel", "not_root"}) /= {}
        /\ Last(exits) = 0 =>
             /\ ProcEvs \cap Troubles = {}
             /\ ProcEvs \cap {"summary", "command"} /= {}

C10_Witness ==
    /\ pc = "exited"
    /\ "alarm_failed" \in ProcEvs
    /\ Last(exits) = 1
    /\ args.pm_operation = "poweroff"
    /\ artefact /= {}

(* C11: in every process of a reboot campaign, the first one and the ones
   started from the autostart file, the parsed wakeup and min_pm_time are
   both 0 whatever --wakeup and --min-pm-time the command line holds; the
   duration check of a reboot process uses 0 as its lower bound and the
   autostart file carries 0 for both to the next process *)
C11_RebootForcesZero ==
    (args /= NoArgs /\ args.pm_operation = "reboot") =>
        /\ args.wakeup = 0
        /\ args.min_pm_time = 0
        /\ gate.kind /= "none" => gate.min = 0
        /\ \A v \in artefact : v["wakeup"] = 0 /\ v["min_pm_time"] = 0

C11_Witness ==
    /\ args /= NoArgs
    /\ args.pm_operation = "reboot"
    /\ Count("start") = 1
    /\ "wakeup" \in DOMAIN argv /\ argv["wakeup"] = 3
    /\ "min_pm_time" \in DOMAIN argv /\ argv["min_pm_time"] = 30
    /\ args.wakeup = 0
    /\ args.min_pm_time = 0
    /\ pending

Max0(x) == IF x < 0 THEN 0 ELSE x

(* C12: a process started without --min-pm-time uses max(0, wakeup - 2) as
   its min_pm_time, wakeup being the value the process uses (the one of
   --wakeup, 60 without it, 0 for reboot), for every wakeup from 0 up *)
C12_DefaultMinPmTime ==
    (args /= NoArgs /\ "min_pm_time" \notin DOMAIN argv) =>
        /\ args.wakeup = IF args.pm_operation = "reboot" THEN 0
                         ELSE Arg(argv, "wakeup", DefaultWakeup)
        /\ args.min_pm_time = Max0(args.wakeup - 2)

C12_Witness ==
    /\ args /= NoArgs
    /\ args.pm_operation = "suspend"
    /\ "min_pm_time" \notin DOMAIN argv
    /\ "wakeup" \in DOMAIN argv /\ argv["wakeup"] = 1
    /\ args.wakeup = 1
    /\ args.min_pm_time = 0

(* C13 as stated: a process of a suspend, hibernate or poweroff campaign
   started with --min-pm-time m uses m as its min_pm_time, for every
   m >= 0 *)
C13_SuppliedMinPmTimeIsUsed ==
    (/\ args /= NoArgs
     /\ args.pm_operation /= "reboot"
     /\ "min_pm_time" \in DOMAIN argv) =>
        args.min_pm_time = argv["min_pm_time"]

(* the alarm is armed: the register holds a time within one second of
   now + timeout, in UTC or in local time, and the RTC reports the alarm
   interrupt enabled with a complete alarm date *)
Armed(al) ==
    /\ al.stored /= <<>>
    /\ \/ Abs(al.stored[1] - al.utc) <= 1
       \/ Abs(al.stored[1] - al.local) <= 1
    /\ al.alarm_IRQ = "yes"
    /\ al.alrm_date = "set"

(* C14: in a suspend, hibernate or poweroff campaign every power command
   is issued at repetitions > 0 and directly follows, in its process, the
   arming of the wake alarm, which directly follows the end of the
   countdown of the same cycle; the process about to run the command has
   armed the alarm for now + args.wakeup and the hardware confirmed it; a
   process whose arming failed does nothing more *)
C14_AlarmArmedBeforeCommand ==
    (first /= NoArgs /\ first.pm_operation /= "reboot") =>
        /\ \A i \in Events("command") :
             /\ hist[i].rep > 0
             /\ i > 2
             /\ hist[i - 1] = Ev("alarm_set", hist[i].rep)
             /\ hist[i - 2] = Ev("accept", hist[i].rep)
        /\ pc = "pm_command" =>
             /\ alarm.result = "set"
             /\ alarm.timeout = args.wakeup
             /\ alarm.utc = now + args.wakeup
             /\ Armed(alarm)
             /\ Last(hist) = Ev("alarm_set", args.repetitions)
        /\ \A i \in Events("alarm_failed") :
             /\ hist[i - 1] = Ev("accept", hist[i].rep)
             /\ LaterInProcess(i) \subseteq Events("login")

C14_Witness ==
    /\ first /= NoArgs
    /\ first.pm_operation = "poweroff"
    /\ Count("alarm_set") = 2
    /\ Count("command") = 2
    /\ Last(hist).ev = "command"
    /\ pending

(* C15: WakeUpAlarm.set called at time now with timeout N compares the
   integer s it read back with now + N and with now + N shifted by the
   offset of local time; it accepts s (and goes on to the RTC cross-check)
   iff s is within one second of either, and otherwise the process ends
   at once with exit status 1 *)
C15_StoredWithinOneSecond ==
    (alarm.result /= "none" /\ alarm.stored /= <<>>) =>
        LET s == alarm.stored[1] IN
        /\ alarm.utc = now + alarm.timeout
        /\ alarm.local - alarm.utc \in TzOffsets
        /\ alarm.accepted <=>
             (Abs(s - alarm.utc) <= 1 \/ Abs(s - alarm.local) <= 1)
        /\ alarm.accepted <=> Last(alarm.ops) = "rtc_read"
        /\ ~ alarm.accepted =>
             /\ alarm.result = "failed"
             /\ pc = "exited"
             /\ Last(exits) = 1
             /\ Last(hist).ev = "alarm_failed"

C15_Witness ==
    /\ alarm.result = "set"
    /\ alarm.accepted
    /\ alarm.stored /= <<>>
    /\ alarm.stored[1] = alarm.local - 1
    /\ Abs(alarm.stored[1] - alarm.utc) > 1
    /\ pc = "pm_command"

(* C16: a process started without root privileges ends at once with exit
   status 1: it has not run the wake-alarm check, not configured logging,
   not touched lightdm.conf or sudoers, not written the autostart file,
   shown no countdown and run no command, and nothing follows it *)
C16_NotRootDoesNothing ==
    (uid /= 0 /\ args /= NoArgs) =>
        /\ pc = "exited"
        /\ exits = <<1>>
        /\ \A i \in 1..Len(hist) : hist[i].ev \in {"start", "not_root", "login"}
        /\ Count("start") = 1
        /\ hist[2].ev = "not_root"
        /\ artefact = {}
        /\ sudoers = 0
        /\ lightdm = lightdm_orig
        /\ backups = <<>>
        /\ ~ pending
        /\ command_str = NoCommand
        /\ alarm = NoAlarm
        /\ gate = NoGate
        /\ event = NoEvent

C16_Witness ==
    /\ uid /= 0
    /\ args /= NoArgs
    /\ args.pm_operation = "poweroff"
    /\ exits = <<1>>
    /\ Last(hist).ev = "login"

(* C17 as stated: every power command of a campaign, whether run by the
   first process or by one started from the autostart file, ends with the
   unknown arguments given to the first process *)
C17_ExtraArgsOnEveryCommand ==
    command_str /= NoCommand =>
        command_str.extra_args = first_extra_args

(* C18 as stated: while the background reboot/poweroff command of a
   process is about to take the machine down, the --pm-timestamp in the
   autostart file is the time at which the command was started, i.e. the
   time the countdown of the cycle ended, to the second of the timer *)
C18_TimestampAtCommand ==
    (pending /\ pc = "exited" /\ Last(hist).ev = "command") =>
        \A v \in artefact : now - v["pm_timestamp"] <= 1

(* a cycle that is neither the first one nor the summary: its countdown
   has both delays *)
BothDelays ==
    /\ pc = "dialog"
    /\ args.repetitions >= 1
    /\ args.repetitions < args.total

(* C19 as stated: in the countdown of such a cycle the pre-operation delay
   runs first, with the hardware information delay still to come, and the
   hardware information delay runs last *)
C19_OperationDelayFirst ==
    BothDelays =>
        /\ event.name = "operation" =>
             (Len(events) = 1 /\ events[1].name = "hardware_info")
        /\ event.name = "hardware_info" => events = <<>>

(* C19 amended: in the countdown of such a cycle the hardware information
   delay (hardware_delay seconds) runs first, with the pre-operation delay
   still to come and nothing gathered yet; the hardware information is
   gathered when it expires, and the pre-operation delay (pm_delay seconds)
   runs last; the countdown ends right after the gathering or the timer
   ticks that follow it *)
C19_HardwareDelayFirst ==
    /\ BothDelays =>
         /\ event.name \in {"operation", "hardware_info"}
         /\ event.name = "hardware_info" =>
              /\ event.timeout = args.hardware_delay
              /\ timeout_counter <= args.hardware_delay
              /\ Len(events) = 1
              /\ events[1].name = "operation"
              /\ Last(hist) = Ev("countdown", args.repetitions)
         /\ event.name = "operation" =>
              /\ event.timeout = args.pm_delay
              /\ timeout_counter <= args.pm_delay
              /\ events = <<>>
              /\ Last(hist) = Ev("hardware_info", args.repetitions)
              /\ hist[Len(hist) - 1] = Ev("countdown", args.repetitions)
    /\ \A i \in Events("accept") :
         (first /= NoArgs /\ hist[i].rep >= 1 /\ hist[i].rep < first.total) =>
            /\ hist[i - 1] = Ev("hardware_info", hist[i].rep)
            /\ hist[i - 2] = Ev("countdown", hist[i].rep)

C19_Witness ==
    /\ BothDelays
    /\ args.pm_operation = "suspend"
    /\ event.name = "operation"
    /\ args.pm_delay = 1
    /\ timeout_counter = 0
    /\ Last(hist) = Ev("hardware_info", args.repetitions)

Positions(ops, o) == {i \in 1..Len(ops) : ops[i] = o}

Writes(ops) == {i \in 1..Len(ops) :
                  ops[i] \in {"write_0", "write_utc", "write_plus_timeout"}}

(* C20: WakeUpAlarm.set writes 0 to the alarm register, then the UTC time
   of the alarm, then reads the register; when what it read is no integer
   it writes "+timeout" once and reads again, and when that is no integer
   either the process ends with exit status 1 without looking further;
   when the first read is an integer nothing more is written.  Every write
   is followed by a read before the value is judged, the value judged is
   the one read last, and /proc/driver/rtc is read last and only when that
   value was accepted *)
C20_WriteProtocol ==
    alarm.result /= "none" =>
        LET ops == alarm.ops
            retried == Positions(ops, "write_plus_timeout") IN
        /\ Len(ops) >= 3
        /\ SubSeq(ops, 1, 3) = <<"write_0", "write_utc", "read">>
        /\ alarm.read1 = <<>> <=> retried = {4}
        /\ alarm.read1 /= <<>> => (retried = {} /\ alarm.stored = alarm.read1)
        /\ retried = {4} => (Len(ops) >= 5 /\ ops[5] = "read")
        /\ Cardinality(Positions(ops, "read")) =
             IF alarm.read1 = <<>> THEN 2 ELSE 1
        /\ \A w \in Writes(ops) : \E r \in Positions(ops, "read") : w < r
        /\ alarm.stored = <<>> =>
             /\ ~ alarm.accepted
             /\ Last(ops) = "read"
             /\ alarm.result = "failed"
             /\ pc = "exited"
             /\ Last(exits) = 1
        /\ alarm.accepted <=> Positions(ops, "rtc_read") = {Len(ops)}
        /\ ~ alarm.accepted =>
             (Positions(ops, "rtc_read") = {} /\ alarm.alarm_IRQ = "unread")
        /\ alarm.result = "set" => alarm.accepted

C20_Witness ==
    /\ alarm.result = "set"
    /\ alarm.read1 = <<>>
    /\ alarm.stored /= <<>>
    /\ alarm.ops = <<"write_0", "write_utc", "read", "write_plus_timeout",
                     "read", "rtc_read">>
    /\ pc = "pm_command"

(* the number of processes started up to hist[i] *)
ProcessOf(i) == Cardinality({j \in Events("start") : j <= i})

Switches == {<<"autologin_on", "autologin_off">>, <<"sudo_on", "sudo_off">>}

(* C21: in a reboot or poweroff campaign autologin and passwordless sudo
   are each enabled at most once, by the first process and at
   repetitions = total; no process runs teardown twice; neither change is
   disabled twice or before it was enabled; and when a process has ended
   after the summary, a cancellation or a failed duration check, each was
   enabled once and disabled once and the files are as they were *)
C21_EnvChangesOnce ==
    (first /= NoArgs /\ first.pm_operation \in RestartOperations) =>
        /\ \A sw \in Switches :
             /\ Count(sw[1]) <= 1
             /\ Count(sw[2]) <= 1
             /\ \A i \in Events(sw[1]) :
                  ProcessOf(i) = 1 /\ hist[i].rep = first.total
             /\ \A i \in Events(sw[2]) : \E j \in Events(sw[1]) : j < i
        /\ \A i \in Events("remove") :
             \A k \in LaterInProcess(i) : hist[k].ev /= "remove"
        /\ sudoers <= 1
        /\ (pc = "exited"
              /\ ProcEvs \cap {"summary", "cancel", "gate_failed"} /= {}) =>
             /\ \A sw \in Switches : Count(sw[1]) = 1 /\ Count(sw[2]) = 1
             /\ Count("remove") = 1
             /\ sudoers = 0
             /\ lightdm = lightdm_orig
             /\ backups = <<>>

C21_Witness ==
    /\ first /= NoArgs
    /\ first.pm_operation = "reboot"
    /\ first.total = 2
    /\ pc = "exited"
    /\ Count("start") = 2
    /\ "gate_failed" \in ProcEvs
    /\ Count("autologin_on") = 1
    /\ Count("sudo_off") = 1

EnvEvents == {"write", "remove", "autologin_on", "autologin_off",
              "sudo_on", "sudo_off"}

(* C22: a suspend or hibernate campaign is one process; whatever happens
   to it (completion, cancellation, failed duration check, hardware error,
   later logins) the autostart file is never written or removed and
   lightdm.conf and sudoers are never changed *)
C22_SuspendLeavesEnvAlone ==
    (first /= NoArgs /\ first.pm_operation \in {"suspend", "hibernate"}) =>
        /\ Count("start") = 1
        /\ \A i \in 1..Len(hist) : hist[i].ev \notin EnvEvents
        /\ artefact = {}
        /\ writer = NoArgs
        /\ sudoers = 0
        /\ lightdm = lightdm_orig
        /\ backups = <<>>
        /\ ~ pending

C22_Witness ==
    /\ first /= NoArgs
    /\ first.pm_operation = "hibernate"
    /\ first.repetitions = 2
    /\ Count("command") = 2
    /\ Count("gate_failed") = 1
    /\ Last(hist).ev = "login"
    /\ exits = <<2>>

AlarmEvents == {"preflight_good", "preflight_bad", "alarm_set",
                "alarm_failed"}

(* C23: no process of a reboot campaign runs WakeUpAlarm.check or
   WakeUpAlarm.set: the alarm register and /proc/driver/rtc are never
   written or read, from the first process to the summary *)
C23_RebootNeverTouchesAlarm ==
    (first /= NoArgs /\ first.pm_operation = "reboot") =>
        /\ \A i \in 1..Len(hist) : hist[i].ev \notin AlarmEvents
        /\ pc \notin {"wakeup_check", "wakeup_set"}
        /\ alarm = NoAlarm
        /\ \A i \in Events("command") : hist[i - 1].ev = "accept"

C23_Witness ==
    /\ first /= NoArgs
    /\ first.pm_operation = "reboot"
    /\ Count("start") = 3
    /\ Count("command") = 2
    /\ Count("summary") = 1
    /\ pc = "exited"

(* C24 as stated: after WakeUpAlarm.set has failed in a process, that
   process runs no command and no further process of the campaign is
   ever started *)
C24_AlarmFailureEndsCampaign ==
    \A i \in Events("alarm_failed") :
        \A k \in (i + 1)..Len(hist) : hist[k].ev \notin {"command", "start"}

FatalErrors == {"preflight_bad", "alarm_failed", "not_root"}

TeardownEvs == {"remove", "sudo_off", "autologin_off"}

EnvEnabled == lightdm = "autologin" /\ sudoers = 1

EnvOriginal == lightdm = lightdm_orig /\ sudoers = 0 /\ backups = <<>>

(* C25: a process ended by a failed wake-alarm check, a failed alarm
   arming or the uid test has not run teardown, and the files are as the
   process had them when the error struck: after a failed arming in a
   poweroff process the autostart file written by its setup is there with
   repetitions - 1 and autologin and sudo are still enabled; after a
   failed check the file the process was started from (none for the first
   process) is untouched; a suspend or hibernate process and a process
   without privileges leave everything as it was before the campaign *)
C25_NoTeardownOnFatalError ==
    (pc = "exited" /\ ProcEvs \cap FatalErrors /= {}) =>
        /\ Last(exits) = 1
        /\ ProcEvs \cap TeardownEvs = {}
        /\ ("alarm_failed" \in ProcEvs /\ args.pm_operation = "poweroff") =>
             /\ "write" \in ProcEvs
             /\ Cardinality(artefact) = 1
             /\ \A v \in artefact :
                  /\ v["repetitions"] = args.repetitions - 1
                  /\ v["total"] = args.total
                  /\ v["pm_operation"] = "poweroff"
             /\ writer = args
             /\ EnvEnabled
        /\ ("preflight_bad" \in ProcEvs /\ args.pm_operation = "poweroff") =>
             IF Count("start") = 1
             THEN artefact = {} /\ EnvOriginal
             ELSE artefact = {argv} /\ EnvEnabled
        /\ (args.pm_operation \in {"suspend", "hibernate"}
              \/ "not_root" \in ProcEvs) =>
             (artefact = {} /\ EnvOriginal)

C25_Witness ==
    /\ pc = "exited"
    /\ args.pm_operation = "poweroff"
    /\ Count("start") = 2
    /\ Last(hist).ev = "alarm_failed"
    /\ args.repetitions = 1
    /\ \A v \in artefact : v["repetitions"] = 0
    /\ artefact /= {}
    /\ EnvEnabled

(* C26: TestCancelled is raised only out of a countdown that is still
   running: the cancellation directly follows the start of the countdown
   of its cycle or the gathering of hardware information inside it; once
   the countdown has ended the process is at the alarm arming or at the
   command with no exception pending, and a cycle whose command has been
   run is never the cycle of a cancellation *)
C26_CancelOnlyInCountdown ==
    /\ \A i \in Events("cancel") :
         /\ i > 1
         /\ hist[i - 1].ev \in {"countdown", "hardware_info"}
         /\ hist[i - 1].rep = hist[i].rep
         /\ \A k \in 1..(i - 1) :
              hist[k].rep = hist[i].rep =>
                 hist[k].ev \notin {"accept", "alarm_set", "command"}
    /\ \A i \in Events("command") :
         \A k \in (i + 1)..Len(hist) :
            ~ (hist[k].ev = "cancel" /\ hist[k].rep = hist[i].rep)
    /\ pc \in {"wakeup_set", "pm_command"} =>
         (exc = "none" /\ Last(hist).ev \in {"accept", "alarm_set"})
    /\ exc = "TestCancelled" => Last(hist).ev = "cancel"

C26_Witness ==
    /\ first /= NoArgs
    /\ first.pm_operation = "suspend"
    /\ first.repetitions = 2
    /\ Count("command") = 1
    /\ Last(hist) = Ev("cancel", 1)
    /\ hist[Len(hist) - 1] = Ev("hardware_info", 1)
    /\ exc = "TestCancelled"

(* the process has ended after its summary countdown was cancelled *)
SummaryCancelled ==
    /\ pc = "exited"
    /\ "cancel" \in ProcEvs
    /\ \E i \in Events("cancel") : i > ProcStart /\ hist[i].rep = 0

(* C27: the countdown shown by summary() at repetitions 0 can be
   cancelled; the process then ends with exit status 1, has run teardown
   once (autostart file gone, sudoers and lightdm.conf restored), and the
   campaign has no summary, although in a campaign without other trouble
   all N commands had been run *)
C27_SummaryCountdownCancellable ==
    SummaryCancelled =>
        /\ Last(exits) = 1
        /\ Count("summary") = 0
        /\ first.pm_operation \in RestartOperations =>
             /\ TeardownEvs \subseteq ProcEvs
             /\ \A e \in TeardownEvs : Count(e) = 1
        /\ EnvReverted
        /\ (\A i \in 1..Len(hist) : hist[i].ev \notin Troubles \ {"cancel"}) =>
             Count("command") = first.repetitions

C27_Witness ==
    /\ SummaryCancelled
    /\ first.pm_operation = "reboot"
    /\ first.repetitions = 2
    /\ Count("command") = 2
    /\ Count("start") = 3
    /\ Last(exits) = 1
    /\ artefact = {}

(* C28: when a campaign of N cycles free of cancellation, failure and
   error has logged its summary, it has shown N + 1 countdowns and the
   timeouts of the events they scheduled add up to
   (pm_delay + hardware_delay) * N; this is the wait_time of the report,
   whose average is (end - start - wait_time) / N less the sleep time *)
C28_WaitTimeIsSumOfTimeouts ==
    (first /= NoArgs /\ Clean /\ Count("summary") = 1) =>
        LET N == first.total IN
        /\ N = first.repetitions
        /\ Count("countdown") = N + 1
        /\ waited = (first.pm_delay + first.hardware_delay) * N
        /\ time_message.wait_time = waited
        /\ time_message.average =
             ((time_message.total - waited) \div N)
             - (IF first.pm_operation = "reboot" THEN SLEEP_TIME
                ELSE first.wakeup)

C28_Witness ==
    /\ first /= NoArgs
    /\ Clean
    /\ Count("summary") = 1
    /\ first.pm_operation = "poweroff"
    /\ first.total = 2
    /\ first.pm_delay = 1
    /\ first.hardware_delay = 2
    /\ Count("countdown") = 3
    /\ waited = 6
    /\ time_message.wait_time = 6

====
